---------------------------- MODULE Spec2Model ----------------------------
(***************************************************************************)
(* Model of core-isa-parser (src/src/main.rs): for every chip, the lines   *)
(* of its core-isa.h that start with "#define" are matched, their value    *)
(* token is classified (decimal, hexadecimal, interrupt type, string,      *)
(* identifier already in the map) and stored in a map; for the ESP32 the   *)
(* entry XCHAL_USE_MEMCTL is computed afterwards from four other entries.  *)
(*                                                                         *)
(* Text is modelled as TLA+ strings read character by character, so the    *)
(* regular expressions and the integer parsers are computed, not assumed.  *)
(* Digit strings in the headers below have at most four digits, so no      *)
(* parsed value leaves the i64 range (nor TLC's integers).                 *)
(***************************************************************************)
EXTENDS Integers, Sequences, FiniteSets, TLC

VARIABLES chipIdx, pc, defines, idx, map, diag

vars == <<chipIdx, pc, defines, idx, map, diag>>

(***************************************************************************)
(* Characters                                                              *)
(***************************************************************************)
Ch(s, i) == SubSeq(s, i, i)

StrTail(s, i) == SubSeq(s, i, Len(s))

CharsOf(s) == {Ch(s, i) : i \in 1..Len(s)}

DecDigits == CharsOf("0123456789")

HexDigits == CharsOf("0123456789abcdefABCDEF")

Letters == CharsOf("abcdefghijklmnopqrstuvwxyzABCDEFGHIJKLMNOPQRSTUVWXYZ")

\* the class [a-zA-Z\d_] of re_define and re_ident
IdentChars == Letters \cup DecDigits \cup {"_"}

\* the class \s, restricted to the blanks that occur inside a line
Whitespace == {" ", "\t"}

Quote == "\""

\* value of each digit character, as char::to_digit(16) gives it
DigitValues ==
    [c \in HexDigits |->
        CHOOSE d \in 0..15 : Ch("0123456789abcdef", d + 1) = c
                             \/ Ch("0123456789ABCDEF", d + 1) = c]

\* char::to_digit(radix) is Some
IsDigit(c, radix) == c \in HexDigits /\ DigitValues[c] < radix

\* number of consecutive characters of s from position i on whose
\* membership in set equals member
RECURSIVE Span(_, _, _, _)
Span(s, i, set, member) ==
    IF i > Len(s) \/ ((Ch(s, i) \in set) # member)
    THEN 0
    ELSE 1 + Span(s, i + 1, set, member)

StartsWith(s, prefix) ==
    Len(s) >= Len(prefix) /\ SubSeq(s, 1, Len(prefix)) = prefix

\* str::replace: every non-overlapping occurrence of from, left to right
RECURSIVE Replace(_, _, _)
Replace(s, from, to) ==
    IF Len(s) = 0 THEN ""
    ELSE IF StartsWith(s, from)
         THEN to \o Replace(StrTail(s, Len(from) + 1), from, to)
         ELSE Ch(s, 1) \o Replace(StrTail(s, 2), from, to)


(***************************************************************************)
(* Chips, interrupt types and values                                       *)
(***************************************************************************)
\* Chip::iter(): the variants in declaration order
ChipIter == <<"Esp32", "Esp32s2", "Esp32s3", "Esp8266">>

NumChips == Len(ChipIter)

\* InterruptType::from_str: the serialized name of each variant
InterruptFromStr ==
    [t \in {"XTHAL_INTTYPE_EXTERN_EDGE", "XTHAL_INTTYPE_EXTERN_LEVEL",
            "XTHAL_INTTYPE_NMI", "XTHAL_INTTYPE_PROFILING",
            "XTHAL_INTTYPE_SOFTWARE", "XTHAL_INTTYPE_TIMER",
            "XTHAL_TIMER_UNCONFIGURED"} |->
        CASE t = "XTHAL_INTTYPE_EXTERN_EDGE" -> "ExternEdge"
          [] t = "XTHAL_INTTYPE_EXTERN_LEVEL" -> "ExternLevel"
          [] t = "XTHAL_INTTYPE_NMI" -> "Nmi"
          [] t = "XTHAL_INTTYPE_PROFILING" -> "Profiling"
          [] t = "XTHAL_INTTYPE_SOFTWARE" -> "Software"
          [] t = "XTHAL_INTTYPE_TIMER" -> "Timer"
          [] t = "XTHAL_TIMER_UNCONFIGURED" -> "TimerUnconfigured"]

\* enum Value
Integer(n) == [tag |-> "Integer", int |-> n]

Interrupt(k) == [tag |-> "Interrupt", kind |-> k]

String(s) == [tag |-> "String", str |-> s]

\* the branch of parse_defines that stores nothing
None == [tag |-> "None"]

(***************************************************************************)
(* Parsers and regular expressions                                         *)
(***************************************************************************)
RECURSIVE DigitsValue(_, _, _)
DigitsValue(digits, radix, acc) ==
    IF Len(digits) = 0 THEN acc
    ELSE DigitsValue(StrTail(digits, 2), radix,
                     acc * radix + DigitValues[Ch(digits, 1)])

\* str::parse::<i64> (radix 10) and i64::from_str_radix: an optional sign,
\* then at least one digit of the radix and nothing else
ParseI64(s, radix) ==
    LET signed == Len(s) > 0 /\ Ch(s, 1) \in {"+", "-"}
        digits == IF signed THEN StrTail(s, 2) ELSE s
        ok == /\ Len(digits) > 0
              /\ \A i \in 1..Len(digits) : IsDigit(Ch(digits, i), radix)
        magnitude == DigitsValue(digits, radix, 0)
    IN IF ok
       THEN [ok |-> TRUE,
             val |-> IF signed /\ Ch(s, 1) = "-" THEN 0 - magnitude ELSE magnitude]
       ELSE [ok |-> FALSE, val |-> 0]

\* re_define: ^#define[\s]+([a-zA-Z\d_]+)[\s]+([^\s]+)
\* every repetition is greedy and none can give a character back, so the
\* groups are the maximal runs
ReDefine(line) ==
    LET p1 == Len("#define") + 1
        w1 == Span(line, p1, Whitespace, TRUE)
        p2 == p1 + w1
        n1 == Span(line, p2, IdentChars, TRUE)
        p3 == p2 + n1
        w2 == Span(line, p3, Whitespace, TRUE)
        p4 == p3 + w2
        n2 == Span(line, p4, Whitespace, FALSE)
    IN IF StartsWith(line, "#define") /\ w1 > 0 /\ n1 > 0 /\ w2 > 0 /\ n2 > 0
       THEN [is_match |-> TRUE,
             identifier |-> SubSeq(line, p2, p3 - 1),
             value |-> SubSeq(line, p4, p4 + n2 - 1)]
       ELSE [is_match |-> FALSE, identifier |-> "", value |-> ""]

\* re_ident: ^[a-zA-Z\d_]+$
ReIdentIsMatch(s) ==
    Len(s) > 0 /\ \A i \in 1..Len(s) : Ch(s, i) \in IdentChars

\* re_string: "([^"]+)" found anywhere in s
ReStringIsMatch(s) ==
    \E i \in 1..Len(s) : \E j \in (i + 2)..Len(s) :
        /\ Ch(s, i) = Quote
        /\ Ch(s, j) = Quote
        /\ \A k \in (i + 1)..(j - 1) : Ch(s, k) # Quote

\* ParseValue with the identifier lookup moved before the interrupt types
ParseValue_IdentFirst(value, m) ==
    IF ParseI64(value, 10).ok
    THEN Integer(ParseI64(value, 10).val)
    ELSE IF ParseI64(Replace(value, "0x", ""), 16).ok
    THEN Integer(ParseI64(Replace(value, "0x", ""), 16).val)
    ELSE IF ReIdentIsMatch(value) /\ value \in DOMAIN m
    THEN m[value]
    ELSE IF value \in DOMAIN InterruptFromStr
    THEN Interrupt(InterruptFromStr[value])
    ELSE IF ReStringIsMatch(value)
    THEN String(Replace(value, Quote, ""))
    ELSE None

\* the if/else-if chain of parse_defines: the value stored for a value
\* token, given the map built so far
ParseValue(value, m) ==
    IF ParseI64(value, 10).ok
    THEN Integer(ParseI64(value, 10).val)
    ELSE IF ParseI64(Replace(value, "0x", ""), 16).ok
    THEN Integer(ParseI64(Replace(value, "0x", ""), 16).val)
    ELSE IF value \in DOMAIN InterruptFromStr
    THEN Interrupt(InterruptFromStr[value])
    ELSE IF ReStringIsMatch(value)
    THEN String(Replace(value, Quote, ""))
    ELSE IF ReIdentIsMatch(value) /\ value \in DOMAIN m
    THEN m[value]
    ELSE None

\* MapInsert that keeps the value of a key already present
MapInsert_KeepFirst(m, k, v) ==
    [x \in (DOMAIN m) \cup {k} |-> IF x \in DOMAIN m THEN m[x] ELSE v]

\* HashMap::insert
MapInsert(m, k, v) ==
    [x \in (DOMAIN m) \cup {k} |-> IF x = k THEN v ELSE m[x]]

\* HashMap::new
EmptyMap == [x \in {} |-> None]

(***************************************************************************)
(* Headers the model reads                                                 *)
(***************************************************************************)
\* longest header made of arbitrary lines
MaxLines == 3

\* lines a core-isa.h may hold; the last one does not start with #define
HeaderLines ==
    {"#define FOO 10",
     "#define FOO\t0x1F /* mask */",
     "#define HEX 0X1F",
     "#define BAZ FOO",
     "#define QUX BAZ",
     "#define BAZ FACE",
     "#define QUX XTHAL_INTTYPE_NMI",
     "#define XTHAL_INTTYPE_NMI 5",
     "#define FOO ???",
     "#define FOO(x) 1",
     "#undef FOO"}

BoundedSeq(S, n) == UNION {[1..k -> S] : k \in 0..n}

\* headers made of at most MaxLines arbitrary lines
ShortHeaders == BoundedSeq(HeaderLines, MaxLines)

LoopBufferTokens == {"-1", "0", "256"}

FlagTokens == {"0", "1"}

\* the last input may also be a string or unreadable
LastFlagTokens == FlagTokens \cup {"\"n\"", "???"}

MemctlLines ==
    {"#define XCHAL_USE_MEMCTL 7",
     "#define XCHAL_USE_MEMCTL (((XCHAL_LOOP_BUFFER_SIZE > 0) ||"}

\* headers that define the four inputs of XCHAL_USE_MEMCTL, with or without
\* a definition of XCHAL_USE_MEMCTL itself before them
MemctlHeaders ==
    {prior \o <<"#define XCHAL_LOOP_BUFFER_SIZE " \o a,
                "#define XCHAL_DCACHE_IS_COHERENT " \o b,
                "#define XCHAL_HAVE_ICACHE_DYN_WAYS " \o c,
                "#define XCHAL_HAVE_DCACHE_DYN_WAYS " \o d>> :
        prior \in BoundedSeq(MemctlLines, 1),
        a \in LoopBufferTokens, b \in FlagTokens, c \in FlagTokens,
        d \in LastFlagTokens}

Headers == ShortHeaders \cup MemctlHeaders

(***************************************************************************)
(* The program                                                             *)
(***************************************************************************)
\* the chip of the current iteration of main's loop
Chip == ChipIter[chipIdx]

\* find_all_defines: the lines that start with "#define", in file order
FindAllDefines(lines) ==
    SelectSeq(lines, LAMBDA line : StartsWith(line, "#define"))

\* the to_integer! macro succeeds: the entry exists and is an Integer
HasInteger(m, identifier) ==
    identifier \in DOMAIN m /\ m[identifier].tag = "Integer"

MemctlInputs ==
    {"XCHAL_LOOP_BUFFER_SIZE", "XCHAL_DCACHE_IS_COHERENT",
     "XCHAL_HAVE_ICACHE_DYN_WAYS", "XCHAL_HAVE_DCACHE_DYN_WAYS"}

\* UseMemctl with loop_buffer_size compared by != instead of >
UseMemctl_NonZero(loop_buffer_size, dcache_is_coherent, have_icache_dyn_ways, have_dcache_dyn_ways) ==
    IF \/ loop_buffer_size # 0
       \/ dcache_is_coherent # 0
       \/ have_icache_dyn_ways # 0
       \/ have_dcache_dyn_ways # 0
    THEN 1 ELSE 0

\* use_memctl as i64
UseMemctl(loop_buffer_size, dcache_is_coherent, have_icache_dyn_ways, have_dcache_dyn_ways) ==
    IF \/ loop_buffer_size > 0
       \/ dcache_is_coherent # 0
       \/ have_icache_dyn_ways # 0
       \/ have_dcache_dyn_ways # 0
    THEN 1 ELSE 0

\* the condition under which "Unable to process definition" is printed
ReportsUnable(chip, identifier) ==
    chip # "Esp32" /\ identifier # "XCHAL_USE_MEMCTL"

Init ==
    /\ chipIdx = 1
    /\ pc = "loop"
    /\ defines = <<>>
    /\ idx = 1
    /\ map = EmptyMap
    /\ diag = <<>>

\* main prints the chip; parse_defines obtains the define lines of its header
FindAllDefinesOk ==
    /\ pc = "loop"
    /\ chipIdx <= NumChips
    /\ \E lines \in Headers : defines' = FindAllDefines(lines)
    /\ idx' = 1
    /\ map' = EmptyMap
    /\ diag' = <<>>
    /\ pc' = "parse"
    /\ UNCHANGED chipIdx

\* core_isa_path or read_to_string fails; the ? operators return the error
\* from find_all_defines, parse_defines and main
FindAllDefinesErr ==
    /\ pc = "loop"
    /\ chipIdx <= NumChips
    /\ pc' = "exit_err"
    /\ UNCHANGED <<chipIdx, defines, idx, map, diag>>

\* a line that re_define does not match
DefineNotMatched ==
    /\ pc = "parse"
    /\ idx <= Len(defines)
    /\ ~ReDefine(defines[idx]).is_match
    /\ diag' = Append(diag, [kind |-> "not_matched", define |-> defines[idx]])
    /\ idx' = idx + 1
    /\ UNCHANGED <<chipIdx, pc, defines, map>>

\* a matched line whose value is stored
InsertDefine ==
    /\ pc = "parse"
    /\ idx <= Len(defines)
    /\ LET captures == ReDefine(defines[idx])
           value == ParseValue(captures.value, map)
       IN /\ captures.is_match
          /\ value # None
          /\ map' = MapInsert(map, captures.identifier, value)
    /\ idx' = idx + 1
    /\ UNCHANGED <<chipIdx, pc, defines, diag>>

\* SkipDefine that also forgets an earlier definition of the identifier
SkipDefine_Forgets ==
    /\ pc = "parse"
    /\ idx <= Len(defines)
    /\ LET captures == ReDefine(defines[idx])
       IN /\ captures.is_match
          /\ ParseValue(captures.value, map) = None
          /\ map' = [x \in (DOMAIN map) \ {captures.identifier} |-> map[x]]
          /\ diag' = IF ReportsUnable(Chip, captures.identifier)
                     THEN Append(diag, [kind |-> "unable",
                                        identifier |-> captures.identifier,
                                        value |-> captures.value])
                     ELSE diag
    /\ idx' = idx + 1
    /\ UNCHANGED <<chipIdx, pc, defines>>

\* a matched line whose value is none of the five shapes
SkipDefine ==
    /\ pc = "parse"
    /\ idx <= Len(defines)
    /\ LET captures == ReDefine(defines[idx])
       IN /\ captures.is_match
          /\ ParseValue(captures.value, map) = None
          /\ diag' = IF ReportsUnable(Chip, captures.identifier)
                     THEN Append(diag, [kind |-> "unable",
                                        identifier |-> captures.identifier,
                                        value |-> captures.value])
                     ELSE diag
    /\ idx' = idx + 1
    /\ UNCHANGED <<chipIdx, pc, defines, map>>

\* the loop of parse_defines is over: Ok(map)
ParseReturn ==
    /\ pc = "parse"
    /\ idx > Len(defines)
    /\ pc' = "parsed"
    /\ UNCHANGED <<chipIdx, defines, idx, map, diag>>

\* fix_esp32_xchal_use_memctl, all four to_integer! succeed
FixEsp32 ==
    /\ pc = "parsed"
    /\ Chip = "Esp32"
    /\ \A identifier \in MemctlInputs : HasInteger(map, identifier)
    /\ map' = MapInsert(map, "XCHAL_USE_MEMCTL",
                        Integer(UseMemctl(map["XCHAL_LOOP_BUFFER_SIZE"].int,
                                          map["XCHAL_DCACHE_IS_COHERENT"].int,
                                          map["XCHAL_HAVE_ICACHE_DYN_WAYS"].int,
                                          map["XCHAL_HAVE_DCACHE_DYN_WAYS"].int)))
    /\ pc' = "fixed"
    /\ UNCHANGED <<chipIdx, defines, idx, diag>>

\* fix_esp32_xchal_use_memctl, an unwrap of to_integer! panics
FixEsp32Panic ==
    /\ pc = "parsed"
    /\ Chip = "Esp32"
    /\ \E identifier \in MemctlInputs : ~HasInteger(map, identifier)
    /\ pc' = "panicked"
    /\ UNCHANGED <<chipIdx, defines, idx, map, diag>>

\* main prints config, drops it and goes to the next chip
PrintConfig ==
    /\ \/ pc = "fixed"
       \/ pc = "parsed" /\ Chip # "Esp32"
    /\ chipIdx' = chipIdx + 1
    /\ pc' = "loop"
    /\ defines' = <<>>
    /\ idx' = 1
    /\ map' = EmptyMap
    /\ diag' = <<>>

\* Chip::iter() is exhausted: main returns Ok(())
MainReturn ==
    /\ pc = "loop"
    /\ chipIdx > NumChips
    /\ pc' = "done"
    /\ UNCHANGED <<chipIdx, defines, idx, map, diag>>

Next ==
    \/ FindAllDefinesOk
    \/ FindAllDefinesErr
    \/ DefineNotMatched
    \/ InsertDefine
    \/ SkipDefine
    \/ ParseReturn
    \/ FixEsp32
    \/ FixEsp32Panic
    \/ PrintConfig
    \/ MainReturn

Spec == Init /\ [][Next]_vars

(***************************************************************************)
(* Vocabulary of the properties                                            *)
(***************************************************************************)
\* the captures of the line parse_defines is about to process
Current == ReDefine(defines[idx])

\* this step processes one line of the header
ProcessesLine == pc = "parse" /\ idx <= Len(defines) /\ idx' = idx + 1

\* the captures of line i of the header
Captures(i) == ReDefine(defines[i])

\* the value token is one parse_defines stores without looking at the map
IsLiteral(token) == ParseValue(token, EmptyMap) # None

\* the value token can only be stored as a copy of another definition
IsAlias(token) == ~IsLiteral(token) /\ ReIdentIsMatch(token)

\* 0x or 0X followed by hex digits
IsPrefixedHex(token) ==
    /\ Len(token) > 2
    /\ SubSeq(token, 1, 2) \in {"0x", "0X"}
    /\ \A i \in 3..Len(token) : Ch(token, i) \in HexDigits

\* the identifier grammar [A-Za-z_][A-Za-z0-9_]*
IsIdentifier(token) ==
    /\ Len(token) > 0
    /\ Ch(token, 1) \in Letters \cup {"_"}
    /\ \A i \in 1..Len(token) : Ch(token, i) \in IdentChars

\* the lines of the header that define identifier
LinesOf(identifier) ==
    {i \in 1..Len(defines) :
        Captures(i).is_match /\ Captures(i).identifier = identifier}

\* main has stopped
Terminated == pc \in {"done", "exit_err", "panicked"}

(***************************************************************************)
(* C1: an alias line `#define A T` ends up in the table with T's value     *)
(* whenever T is directly defined anywhere in the header, before or after  *)
(* the alias line.  Stated for the last line that defines A; T's value is  *)
(* the value of one of its direct definitions.                             *)
(***************************************************************************)
C1_AliasResolvesAnywhere ==
    pc = "parsed" =>
        \A i \in 1..Len(defines) : \A j \in 1..Len(defines) :
            ( /\ Captures(i).is_match
              /\ Captures(j).is_match
              /\ IsAlias(Captures(i).value)
              /\ Captures(j).identifier = Captures(i).value
              /\ IsLiteral(Captures(j).value)
              /\ \A k \in LinesOf(Captures(i).identifier) : k <= i )
            => /\ Captures(i).identifier \in DOMAIN map
               /\ \E k \in LinesOf(Captures(i).value) :
                     /\ IsLiteral(Captures(k).value)
                     /\ map[Captures(i).identifier]
                            = ParseValue(Captures(k).value, EmptyMap)

(***************************************************************************)
(* C2: for the two-hop chain QUX = BAZ, BAZ = FOO, FOO = 10, in any line   *)
(* order, the finished table maps BAZ to Integer(10) and has no entry for  *)
(* QUX.                                                                    *)
(***************************************************************************)
ChainLines == {"#define QUX BAZ", "#define BAZ FOO", "#define FOO 10"}

C2_ExactlyOneHop ==
    ( /\ pc = "parsed"
      /\ Len(defines) = 3
      /\ {defines[i] : i \in 1..3} = ChainLines )
    => /\ "BAZ" \in DOMAIN map
       /\ map["BAZ"] = Integer(10)
       /\ "QUX" \notin DOMAIN map

(***************************************************************************)
(* C3: when an identifier is defined more than once with literal values,   *)
(* the table parse_defines returns maps it to the value of the last such   *)
(* line (no alias line for it follows), and nothing is reported about the  *)
(* repeated lines.                                                         *)
(***************************************************************************)
C3_LastDefinitionWins ==
    pc = "parsed" =>
        \A i \in 1..Len(defines) : \A j \in 1..Len(defines) :
            ( /\ i < j
              /\ Captures(i).is_match
              /\ Captures(j).is_match
              /\ Captures(j).identifier = Captures(i).identifier
              /\ IsLiteral(Captures(i).value)
              /\ IsLiteral(Captures(j).value)
              /\ \A k \in LinesOf(Captures(j).identifier) :
                    k > j => ~IsLiteral(Captures(k).value)
                             /\ ~IsAlias(Captures(k).value) )
            => /\ Captures(j).identifier \in DOMAIN map
               /\ map[Captures(j).identifier]
                      = ParseValue(Captures(j).value, EmptyMap)
               /\ \A d \in 1..Len(diag) :
                     diag[d].kind = "unable" =>
                        ~IsLiteral(diag[d].value)

\* FOO is defined as 10 and then as 0x1F: the table holds 31
C3_Witness ==
    /\ pc = "parsed"
    /\ defines = <<"#define FOO 10", "#define FOO\t0x1F /* mask */">>
    /\ map = [x \in {"FOO"} |-> Integer(31)]

(***************************************************************************)
(* C4: when one chip fails (header not found or unreadable, or an input of *)
(* the corrector missing), every later chip is still attempted: main never *)
(* stops while a chip of Chip::iter() is left.                             *)
(***************************************************************************)
C4_LaterChipsAttempted ==
    Terminated => chipIdx >= NumChips

(***************************************************************************)
(* C5: on the Esp32, when the four inputs are present as integers, the     *)
(* corrector leaves XCHAL_USE_MEMCTL = Integer(1) if loop_buffer_size > 0  *)
(* or one of the other three is not 0, and Integer(0) otherwise, whatever  *)
(* XCHAL_USE_MEMCTL was before, and changes no other entry; for every      *)
(* other chip the table goes to the printer as parse_defines returned it.  *)
(***************************************************************************)
C5_MemctlCorrected ==
    [][ pc = "parsed" =>
          IF Chip = "Esp32"
          THEN (\A identifier \in MemctlInputs : HasInteger(map, identifier))
               => /\ pc' = "fixed"
                  /\ DOMAIN map' = DOMAIN map \cup {"XCHAL_USE_MEMCTL"}
                  /\ \A x \in DOMAIN map :
                        x # "XCHAL_USE_MEMCTL" => map'[x] = map[x]
                  /\ map'["XCHAL_USE_MEMCTL"] =
                        IF \/ map["XCHAL_LOOP_BUFFER_SIZE"].int > 0
                           \/ map["XCHAL_DCACHE_IS_COHERENT"].int # 0
                           \/ map["XCHAL_HAVE_ICACHE_DYN_WAYS"].int # 0
                           \/ map["XCHAL_HAVE_DCACHE_DYN_WAYS"].int # 0
                        THEN Integer(1) ELSE Integer(0)
          ELSE pc' = "loop" ]_vars

\* the header defined XCHAL_USE_MEMCTL as 7 and the inputs as 0, 0, 1, 0:
\* the corrector has replaced the 7 by 1
C5_Witness ==
    /\ pc = "fixed"
    /\ Chip = "Esp32"
    /\ defines[1] = "#define XCHAL_USE_MEMCTL 7"
    /\ map["XCHAL_LOOP_BUFFER_SIZE"] = Integer(0)
    /\ map["XCHAL_DCACHE_IS_COHERENT"] = Integer(0)
    /\ map["XCHAL_HAVE_ICACHE_DYN_WAYS"] = Integer(1)
    /\ map["XCHAL_HAVE_DCACHE_DYN_WAYS"] = Integer(0)
    /\ map["XCHAL_USE_MEMCTL"] = Integer(1)

(***************************************************************************)
(* C6: a value token made of 0x or 0X and hex digits is stored as the      *)
(* Integer whose value is the base-16 value of the digits after the        *)
(* prefix; 0X is accepted exactly like 0x.                                 *)
(***************************************************************************)
C6_PrefixedHexStored ==
    [][ ProcessesLine =>
          LET cur == Current
          IN ( cur.is_match /\ IsPrefixedHex(cur.value) )
             => /\ cur.identifier \in DOMAIN map'
                /\ map'[cur.identifier] =
                      Integer(DigitsValue(StrTail(cur.value, 3), 16, 0)) ]_vars

(***************************************************************************)
(* C7: a value token of the identifier grammar that is not one of the      *)
(* seven interrupt tokens (FACE, ABC, ...) is never an Integer literal but *)
(* an identifier reference: the line stores a copy of the referenced       *)
(* entry, and nothing when the table has no such entry.                    *)
(***************************************************************************)
C7_IdentifierIsReference ==
    [][ ProcessesLine =>
          LET cur == Current
          IN ( /\ cur.is_match
               /\ IsIdentifier(cur.value)
               /\ cur.value \notin DOMAIN InterruptFromStr )
             => map' = IF cur.value \in DOMAIN map
                       THEN [x \in DOMAIN map \cup {cur.identifier} |->
                                IF x = cur.identifier
                                THEN map[cur.value] ELSE map[x]]
                       ELSE map ]_vars

(***************************************************************************)
(* C8: for every chip, a line whose value is neither a literal (decimal,   *)
(* prefixed hex, interrupt token, string) nor a resolvable alias does not  *)
(* stop the run, stores nothing and emits a diagnostic with the identifier *)
(* and the raw value; only the diagnostic for XCHAL_USE_MEMCTL on the      *)
(* Esp32 is suppressed.                                                    *)
(***************************************************************************)
C8_UnprocessableReported ==
    [][ ProcessesLine =>
          LET cur == Current
          IN ( /\ cur.is_match
               /\ ~IsPrefixedHex(cur.value)
               /\ ParseValue(cur.value, map) = None )
             => /\ pc' = "parse"
                /\ map' = map
                /\ diag' = IF Chip = "Esp32" /\ cur.identifier = "XCHAL_USE_MEMCTL"
                           THEN diag
                           ELSE Append(diag, [kind |-> "unable",
                                              identifier |-> cur.identifier,
                                              value |-> cur.value]) ]_vars

(***************************************************************************)
(* C9: a value token that is one of the seven interrupt tokens is stored   *)
(* as that interrupt type even when the table has an entry under the same  *)
(* name; and a line stores an interrupt type only if its token is one of   *)
(* the seven or names an entry that holds one.                             *)
(***************************************************************************)
C9_InterruptTokenWins ==
    [][ ProcessesLine =>
          LET cur == Current
          IN cur.is_match
             => /\ cur.value \in DOMAIN InterruptFromStr
                   => /\ cur.identifier \in DOMAIN map'
                      /\ map'[cur.identifier]
                             = Interrupt(InterruptFromStr[cur.value])
                /\ ( /\ map' # map
                     /\ map'[cur.identifier].tag = "Interrupt" )
                   => \/ cur.value \in DOMAIN InterruptFromStr
                      \/ /\ cur.value \in DOMAIN map
                         /\ map[cur.value].tag = "Interrupt" ]_vars

\* XTHAL_INTTYPE_NMI was defined as 5, then QUX as XTHAL_INTTYPE_NMI:
\* QUX holds the interrupt type, not the 5
C9_Witness ==
    /\ pc = "parse"
    /\ idx = 3
    /\ defines = <<"#define XTHAL_INTTYPE_NMI 5", "#define QUX XTHAL_INTTYPE_NMI">>
    /\ map["XTHAL_INTTYPE_NMI"] = Integer(5)
    /\ map["QUX"] = Interrupt("Nmi")

(***************************************************************************)
(* C10: processing a line that is skipped (re_define does not match, or    *)
(* the value is no literal and names no entry of the table) leaves the     *)
(* whole table as it was.                                                  *)
(***************************************************************************)
C10_SkippedLineKeepsTable ==
    [][ ProcessesLine =>
          LET cur == Current
          IN ( \/ ~cur.is_match
               \/ /\ ~IsLiteral(cur.value)
                  /\ ~(ReIdentIsMatch(cur.value) /\ cur.value \in DOMAIN map) )
             => map' = map ]_vars

\* FOO was defined as 10, then as ???: FOO is still 10
C10_Witness ==
    /\ pc = "parse"
    /\ idx = 3
    /\ defines = <<"#define FOO 10", "#define FOO ???">>
    /\ map = [x \in {"FOO"} |-> Integer(10)]

=============================================================================
